---- MODULE Spec2Model ----
(***************************************************************************)
(* A model of app.py: the DataSyncManager that copies a Google Sheets      *)
(* range (source A) over a OneDrive Excel workbook (source B), and the     *)
(* Flask route POST /sync that runs it.  Requests are served by threads    *)
(* that share the process working directory, hence the two temp files.     *)
(***************************************************************************)
EXTENDS Integers, Sequences, FiniteSets, TLC

(***************************************************************************)
(* Bounds of the model.                                                    *)
(***************************************************************************)
\* Number of POST /sync requests in one behaviour.  The server starts a
\* thread for each request it accepts, so this many may run at once.
MaxRequests == 2
\* Number of remote calls that fail (answer with an error, or raise).
MaxFaults == 1
\* Number of edits made to the spreadsheet by its users (not by the program).
MaxEdits == 1

Requests == 1..MaxRequests

(***************************************************************************)
(* Data: what the Sheets API returns, pandas DataFrames, workbook files.   *)
(***************************************************************************)
Header == <<"id", "name">>

\* Contents of the spreadsheet range as values().get() returns them: a list
\* of rows of strings, trailing empty cells of a row left out by the API.
SheetValues ==
    { <<>>,                                     \* an empty range
      <<Header>>,                               \* a header and no data row
      <<Header, <<"1", "x">>>>,
      <<Header, <<"1", "x">>, <<"2">>>>,        \* a row cut short by the API
      <<Header, <<"1", "x", "z">>>> }           \* a row wider than the header

\* Python values: None, the empty list, a DataFrame.
None == [type |-> "NoneType"]
EmptyList == [type |-> "list"]
DataFrame(columns, rows) == [type |-> "DataFrame", columns |-> columns, rows |-> rows]

\* A DataFrame cell is <<dtype, text>>, text being what to_string() prints.
StrCell(s) == <<"str", s>>
NoneCell == <<"NoneType", "None">>
NaNCell == <<"float", "NaN">>
IntCell(n) == <<"int", ToString(n)>>
FloatCell(n) == <<"float", ToString(n) \o ".0">>

Max(S) == CHOOSE m \in S : \A k \in S : k <= m

\* pd.DataFrame(values[1:], columns=values[0]): rows are padded with None to
\* the widest row, and a width other than the header's raises ValueError.
FrameWidth(values) == Max({Len(values[i]) : i \in 2..Len(values)})

FrameRaises(values) ==
    Len(values) > 1 /\ FrameWidth(values) # Len(values[1])

PadRow(row, width) ==
    [j \in 1..width |-> IF j <= Len(row) THEN StrCell(row[j]) ELSE NoneCell]

FromValues(values) ==
    DataFrame(values[1],
              [i \in 1..(Len(values) - 1) |-> PadRow(values[i + 1], Len(values[1]))])

\* A workbook file: a header row and rows of cells <<kind, text>>, kind
\* "s" (a string cell), "n" (a numeric cell) or "blank".
Workbook(header, rows) == [header |-> header, rows |-> rows]

ExcelCell(c) ==
    CASE c[1] = "str" -> IF c[2] = "" THEN <<"blank", "">> ELSE <<"s", c[2]>>
      [] c[1] = "int" -> <<"n", c[2]>>
      [] c[1] = "float" /\ c # NaNCell -> <<"n", c[2]>>
      [] OTHER -> <<"blank", "">>

\* data.to_excel(temp_file, sheet_name=..., index=False)
ToExcel(df) ==
    Workbook(df.columns,
             [i \in 1..Len(df.rows) |->
                 [j \in 1..Len(df.rows[i]) |-> ExcelCell(df.rows[i][j])]])

\* The numbers the parser recognises among the strings of the model.
NumericValue(s) ==
    CASE s = "1" -> 1
      [] s = "2" -> 2
      [] s = "1.0" -> 1
      [] s = "2.0" -> 2
      [] OTHER -> -1

IsFloatText(s) == s \in {"1.0", "2.0"}

\* pd.read_excel: a blank cell is NaN; a column whose other cells are all
\* numbers (numeric cells, or strings that parse as numbers) becomes int64,
\* or float64 when it holds a NaN or a float; any other column stays object.
IsNA(c) == c[1] = "blank"

IsNumber(c) == ~IsNA(c) /\ NumericValue(c[2]) >= 0

ColumnCells(wb, j) == {wb.rows[i][j] : i \in 1..Len(wb.rows)}

NumericColumn(wb, j) == \A c \in ColumnCells(wb, j) : IsNA(c) \/ IsNumber(c)

FloatColumn(wb, j) ==
    /\ NumericColumn(wb, j)
    /\ \E c \in ColumnCells(wb, j) : IsNA(c) \/ IsFloatText(c[2])

ParsedCell(wb, i, j) ==
    LET c == wb.rows[i][j]
    IN  IF IsNA(c) THEN NaNCell
        ELSE IF FloatColumn(wb, j) THEN FloatCell(NumericValue(c[2]))
        ELSE IF NumericColumn(wb, j) THEN IntCell(NumericValue(c[2]))
        ELSE StrCell(c[2])

ReadExcel(wb) ==
    DataFrame(wb.header,
              [i \in 1..Len(wb.rows) |->
                  [j \in 1..Len(wb.header) |-> ParsedCell(wb, i, j)]])

\* data.to_string(): the column names and the printed text of every cell.
\* hashlib.md5 of it is taken to be free of collisions.
ToStringDF(df) ==
    [columns |-> df.columns,
     cells |-> [i \in 1..Len(df.rows) |->
                   [j \in 1..Len(df.rows[i]) |-> df.rows[i][j][2]]]]

CalculateDataHash(data) ==
    IF data.type = "DataFrame" THEN ToStringDF(data) ELSE [columns |-> <<>>, cells |-> <<>>]

\* The workbooks the file may hold at the start: one saved from a table the
\* spreadsheet may hold too, and one that differs from it in a cell.
Workbooks ==
    {ToExcel(FromValues(v)) : v \in {<<Header, <<"1", "x">>>>, <<Header, <<"1", "y">>>>}}

(***************************************************************************)
(* State.                                                                  *)
(***************************************************************************)
VARIABLES
    google_service,   \* sync_manager.google_service is set (TRUE) or None
    msal_app,         \* sync_manager.msal_app is set (TRUE) or None
    sheet,            \* source A: the values of the spreadsheet range
    onedrive,         \* source B: the workbook file held by OneDrive
    temp_excel,       \* the file 'temp_excel.xlsx': <<>> or <<its content>>
    temp_upload,      \* the file 'temp_upload.xlsx': <<>> or <<its content>>
    pc,               \* where the thread of each request is
    google_data,      \* sync_data's local google_data, per request
    excel_data,       \* sync_data's local excel_data, per request
    response,         \* the requests response a thread holds: status, content
    result,           \* what sync_manager.sync_data() gave the route
    http,             \* the HTTP response of POST /sync
    calls,            \* the remote calls a request's invocation has made
    faults,           \* remote calls that have failed so far
    edits,            \* edits made to the spreadsheet by its users
    last_writer       \* the request whose write a remote source took last, or 0

vars == <<google_service, msal_app, sheet, onedrive, temp_excel, temp_upload,
          pc, google_data, excel_data, response, result, http, calls,
          edits, faults, last_writer>>

remote == <<sheet, onedrive>>
files == <<temp_excel, temp_upload>>
config == <<google_service, msal_app>>
locals == <<google_data, excel_data, response>>
world == <<edits, faults, last_writer>>

\* What a collaborator may do with one call, and the statuses of a response.
Outcomes == {"ok", "error", "throw"}

\* The outcomes the next remote call may have; `made` tells whether the
\* step makes the call at all.
Possible(made, outcomes) ==
    IF made /\ faults < MaxFaults THEN outcomes ELSE {"ok"}

Fault(made, outcome) ==
    faults' = IF made /\ outcome # "ok" THEN faults + 1 ELSE faults

NoResponse == [status_code |-> 0, content |-> <<>>]
NoResult == [kind |-> "none", success |-> FALSE, message |-> "", detail |-> ""]
NoHttp == [status |-> 0, success |-> FALSE, message |-> ""]

\* return success, f"{message}: {detail}"
Return(success, message, detail) ==
    [kind |-> "return", success |-> success, message |-> message, detail |-> detail]

\* `return True, "No differences found - sync skipped"`
Skipped == Return(TRUE, "No differences found - sync skipped", "")

\* `return True, f"Sync completed: {', '.join(sync_actions)}"` after the
\* write to the workbook
Applied == Return(TRUE, "Sync completed: Google Sheets -> OneDrive Excel", "")

\* sync_data left by an exception instead of a return
Raised == [kind |-> "raise", success |-> FALSE, message |-> "", detail |-> ""]

Init ==
    /\ google_service \in BOOLEAN
    /\ msal_app \in BOOLEAN
    /\ sheet \in SheetValues
    /\ onedrive \in Workbooks
    /\ temp_excel = <<>>
    /\ temp_upload = <<>>
    /\ pc = [t \in Requests |-> "pending"]
    /\ google_data = [t \in Requests |-> None]
    /\ excel_data = [t \in Requests |-> None]
    /\ response = [t \in Requests |-> NoResponse]
    /\ result = [t \in Requests |-> NoResult]
    /\ http = [t \in Requests |-> NoHttp]
    /\ calls = [t \in Requests |-> <<>>]
    /\ edits = 0
    /\ faults = 0
    /\ last_writer = 0

(***************************************************************************)
(* Exceptions: the try blocks around each place that can raise, innermost  *)
(* first.  Every except clause of app.py is `except Exception`.            *)
(***************************************************************************)
TryBlocksRouteOnly(site) == <<"route">>

TryBlocks(site) ==
    CASE site = "sheets" -> <<"read_google_sheets_data", "sync_data", "route">>
      [] site = "token" -> <<"_get_access_token", "sync_data", "route">>
      [] site = "onedrive_read" -> <<"read_onedrive_excel_data", "sync_data", "route">>
      [] site = "onedrive_write" -> <<"write_onedrive_excel_data", "sync_data", "route">>
      [] OTHER -> <<"sync_data", "route">>

Catcher(site) == Head(TryBlocks(site))

\* What sync_data gives its caller when an exception is raised at `site`:
\* `inner` when the collaborator method catches it and returns its error.
Thrown(site, inner) ==
    IF Catcher(site) = "route" THEN Raised
    ELSE IF Catcher(site) = "sync_data" THEN Return(FALSE, "Sync error", "exception")
    ELSE inner

\* The exception leaves the collaborator method it was raised in.
Escapes(site) == Catcher(site) \in {"sync_data", "route"}

(***************************************************************************)
(* The route POST /sync.                                                   *)
(***************************************************************************)
\* No lock, queue or single-flight check stands before sync_manager.sync_data().
MayEnterOneAtATime(t) == \A u \in Requests \ {t} : pc[u] \in {"pending", "done"}

MayEnter(t) == TRUE

\* jsonify({...}) with the default status, or the generic message with 500.
RouteResponseFailureIs500(r) ==
    IF r.kind = "raise" \/ ~r.success
    THEN [status |-> 500, success |-> FALSE,
          message |-> "An error occurred during sync. Please check your configuration."]
    ELSE [status |-> 200, success |-> r.success, message |-> r.message]

RouteResponse(r) ==
    IF r.kind = "raise"
    THEN [status |-> 500, success |-> FALSE,
          message |-> "An error occurred during sync. Please check your configuration."]
    ELSE [status |-> 200, success |-> r.success, message |-> r.message]

\* sync_data returns (or raises) r and the route answers: one step, all local.
Finish(t, r) ==
    /\ result' = [result EXCEPT ![t] = r]
    /\ http' = [http EXCEPT ![t] = RouteResponse(r)]
    /\ pc' = [pc EXCEPT ![t] = "done"]

Continue(t, next) ==
    /\ pc' = [pc EXCEPT ![t] = next]
    /\ UNCHANGED <<result, http>>

\* Request t arrives and a new thread starts sync_data() for it.
Accept(t) ==
    /\ pc[t] = "pending"
    /\ \A u \in Requests : u < t => pc[u] # "pending"
    /\ MayEnter(t)
    /\ pc' = [pc EXCEPT ![t] = "read_google"]
    /\ UNCHANGED <<config, remote, files, locals, result, http, calls, world>>

(***************************************************************************)
(* DataSyncManager.read_google_sheets_data and sync_data's use of it.      *)
(***************************************************************************)
\* execute() of the Sheets request answers or raises (an HttpError).
SheetsOutcomes == {"ok", "throw"}

\* What read_google_sheets_data returns, [data, error] with error "" for
\* None, when its except clause catches whatever is raised in its try block.
ReadGoogleSheetsDataEmptyOk(service, outcome, values) ==
    IF ~service
    THEN [data |-> None, error |-> "Google Sheets service not initialized", raised |-> FALSE]
    ELSE IF outcome # "ok"
    THEN [data |-> None, error |-> "Error reading Google Sheets", raised |-> TRUE]
    ELSE IF values = <<>>
    THEN [data |-> EmptyList, error |-> "", raised |-> FALSE]
    ELSE IF FrameRaises(values)
    THEN [data |-> None, error |-> "Error reading Google Sheets", raised |-> TRUE]
    ELSE [data |-> FromValues(values), error |-> "", raised |-> FALSE]

ReadGoogleSheetsData(service, outcome, values) ==
    IF ~service
    THEN [data |-> None, error |-> "Google Sheets service not initialized", raised |-> FALSE]
    ELSE IF outcome # "ok"
    THEN [data |-> None, error |-> "Error reading Google Sheets", raised |-> TRUE]
    ELSE IF values = <<>>
    THEN [data |-> EmptyList, error |-> "No data found in Google Sheets", raised |-> FALSE]
    ELSE IF FrameRaises(values)
    THEN [data |-> None, error |-> "Error reading Google Sheets", raised |-> TRUE]
    ELSE [data |-> FromValues(values), error |-> "", raised |-> FALSE]

\* `if google_error:`
GoogleErrorIgnored(r) == FALSE

GoogleError(r) == r.error # ""

ReadGoogle(t) ==
    /\ pc[t] = "read_google"
    /\ \E outcome \in Possible(google_service, SheetsOutcomes) :
         LET r == ReadGoogleSheetsData(google_service, outcome, sheet)
             failure == Return(FALSE, "Google Sheets error", r.error)
         IN  /\ Fault(google_service, outcome)
             /\ google_data' = [google_data EXCEPT ![t] = r.data]
             /\ calls' = [calls EXCEPT ![t] =
                            IF google_service THEN Append(@, "sheets.get") ELSE @]
             /\ IF r.raised /\ Escapes("sheets")
                THEN Finish(t, Thrown("sheets", failure))
                ELSE IF GoogleError(r)
                THEN Finish(t, failure)
                ELSE Continue(t, "token_read")
    /\ UNCHANGED <<config, remote, files, excel_data, response, edits, last_writer>>

(***************************************************************************)
(* DataSyncManager._get_access_token                                       *)
(***************************************************************************)
\* The token a call gets: "" for None.  MSAL answers with a token, answers
\* without one, or raises.
GetAccessToken(app, outcome) ==
    IF app /\ outcome = "ok" THEN "access_token" ELSE ""

(***************************************************************************)
(* DataSyncManager.read_onedrive_excel_data and sync_data's use of it.     *)
(***************************************************************************)
ExcelFailure(detail) == Return(FALSE, "OneDrive Excel error", detail)

\* `if excel_error: return False, f"OneDrive Excel error: {excel_error}"`
OnExcelErrorGoOn(t, failure) == Continue(t, "write")

OnExcelError(t, failure) == Finish(t, failure)

\* An exception inside the try block of read_onedrive_excel_data.
ExcelRaised(t) ==
    LET failure == ExcelFailure("Error reading OneDrive Excel")
    IN  IF Escapes("onedrive_read")
        THEN Finish(t, Thrown("onedrive_read", failure))
        ELSE OnExcelError(t, failure)

\* access_token = self._get_access_token() of read_onedrive_excel_data
TokenRead(t) ==
    /\ pc[t] = "token_read"
    /\ \E outcome \in Possible(msal_app, Outcomes) :
         LET failure == ExcelFailure("Failed to get access token for OneDrive")
         IN  /\ Fault(msal_app, outcome)
             /\ calls' = [calls EXCEPT ![t] =
                            IF msal_app THEN Append(@, "msal.token") ELSE @]
             /\ IF msal_app /\ outcome = "throw" /\ Escapes("token")
                THEN Finish(t, Thrown("token", failure))
                ELSE IF GetAccessToken(msal_app, outcome) = ""
                THEN OnExcelError(t, failure)
                ELSE Continue(t, "download")
    /\ UNCHANGED <<config, remote, files, locals, edits, last_writer>>

\* requests.get(download_url, headers=headers)
Download(t) ==
    /\ pc[t] = "download"
    /\ calls' = [calls EXCEPT ![t] = Append(@, "graph.get")]
    /\ \E outcome \in Possible(TRUE, Outcomes) :
         /\ Fault(TRUE, outcome)
         /\ CASE outcome = "ok" ->
                   /\ response' = [response EXCEPT ![t] =
                                     [status_code |-> 200, content |-> <<onedrive>>]]
                   /\ Continue(t, "save_temp")
              [] outcome = "error" ->
                   /\ UNCHANGED response
                   /\ OnExcelError(t, ExcelFailure("Error downloading Excel file"))
              [] OTHER ->
                   /\ UNCHANGED response
                   /\ ExcelRaised(t)
    /\ UNCHANGED <<config, remote, files, google_data, excel_data, edits, last_writer>>

\* with open('temp_excel.xlsx', 'wb') as f: f.write(response.content)
SaveTemp(t) ==
    /\ pc[t] = "save_temp"
    /\ temp_excel' = response[t].content
    /\ Continue(t, "parse_temp")
    /\ UNCHANGED <<config, remote, temp_upload, locals, calls, world>>

\* df = pd.read_excel('temp_excel.xlsx', ...): FileNotFoundError when the
\* file is not there.
ParseTemp(t) ==
    /\ pc[t] = "parse_temp"
    /\ IF temp_excel = <<>>
       THEN /\ ExcelRaised(t)
            /\ response' = [response EXCEPT ![t] = NoResponse]
            /\ UNCHANGED excel_data
       ELSE /\ excel_data' = [excel_data EXCEPT ![t] = ReadExcel(temp_excel[1])]
            /\ Continue(t, "remove_temp")
            /\ UNCHANGED response
    /\ UNCHANGED <<config, remote, files, google_data, calls, world>>

\* `google_modified = True`
GoogleModifiedFalse == FALSE

GoogleModified == TRUE

\* `if google_hash == excel_hash:`
NeverSameHash(a, b) == FALSE

SameHash(a, b) == CalculateDataHash(a) = CalculateDataHash(b)

\* os.remove('temp_excel.xlsx'), the return of df, and sync_data's compare.
RemoveTemp(t) ==
    /\ pc[t] = "remove_temp"
    /\ response' = [response EXCEPT ![t] = NoResponse]
    /\ IF temp_excel = <<>>
       THEN /\ excel_data' = [excel_data EXCEPT ![t] = None]
            /\ UNCHANGED temp_excel
            /\ ExcelRaised(t)
       ELSE /\ temp_excel' = <<>>
            /\ UNCHANGED excel_data
            /\ IF SameHash(google_data[t], excel_data[t])
               THEN Finish(t, Skipped)
               ELSE Continue(t, "write")
    /\ UNCHANGED <<config, remote, temp_upload, google_data, calls, world>>

(***************************************************************************)
(* DataSyncManager.write_google_sheets_data and write_onedrive_excel_data, *)
(* and sync_data's use of them.                                            *)
(***************************************************************************)
WriteFailure(detail) == Return(FALSE, "Failed to sync to Excel", detail)

WriteRaised == Thrown("onedrive_write", WriteFailure("Error writing to OneDrive Excel"))

\* [data.columns.tolist()] + data.values.tolist()
ValuesOf(df) ==
    IF df.type = "DataFrame"
    THEN <<df.columns>> \o
         [i \in 1..Len(df.rows) |-> [j \in 1..Len(df.rows[i]) |-> df.rows[i][j][2]]]
    ELSE <<>>

\* write_google_sheets_data(excel_data): values().clear() and then
\* values().update(), taken here as one step.
WriteGoogle(t) ==
    LET failure(detail) == Return(FALSE, "Failed to sync to Google Sheets", detail)
    IN  \E outcome \in Possible(google_service, SheetsOutcomes) :
          /\ Fault(google_service, outcome)
          /\ calls' = [calls EXCEPT ![t] =
                         IF google_service
                         THEN @ \o <<"sheets.clear", "sheets.update">> ELSE @]
          /\ IF ~google_service
             THEN /\ Finish(t, failure("Google Sheets service not initialized"))
                  /\ UNCHANGED <<sheet, last_writer>>
             ELSE IF outcome = "throw"
             THEN /\ Finish(t, Thrown("sheets", failure("Error writing to Google Sheets")))
                  /\ UNCHANGED <<sheet, last_writer>>
             ELSE /\ sheet' = ValuesOf(excel_data[t])
                  /\ last_writer' = t
                  /\ Finish(t, Return(TRUE, "Sync completed: OneDrive Excel -> Google Sheets", ""))
          /\ UNCHANGED <<config, onedrive, files, locals, edits>>

\* access_token = self._get_access_token() of write_onedrive_excel_data
TokenWrite(t) ==
    \E outcome \in Possible(msal_app, Outcomes) :
      LET failure == WriteFailure("Failed to get access token for OneDrive")
      IN  /\ Fault(msal_app, outcome)
          /\ calls' = [calls EXCEPT ![t] =
                         IF msal_app THEN Append(@, "msal.token") ELSE @]
          /\ IF msal_app /\ outcome = "throw" /\ Escapes("token")
             THEN Finish(t, Thrown("token", failure))
             ELSE IF GetAccessToken(msal_app, outcome) = ""
             THEN Finish(t, failure)
             ELSE Continue(t, "save_upload")
          /\ UNCHANGED <<config, remote, files, locals, edits, last_writer>>

\* `if google_modified:` and the first statement of the branch taken.
StartWrite(t) ==
    /\ pc[t] = "write"
    /\ IF GoogleModified
       THEN TokenWrite(t)
       ELSE WriteGoogle(t)

\* data.to_excel('temp_upload.xlsx', ...); data that is no DataFrame is
\* indexed as a list of rows, which raises for None and for [].
SaveUpload(t) ==
    /\ pc[t] = "save_upload"
    /\ IF google_data[t].type = "DataFrame"
       THEN /\ temp_upload' = <<ToExcel(google_data[t])>>
            /\ Continue(t, "upload")
       ELSE /\ UNCHANGED temp_upload
            /\ Finish(t, WriteRaised)
    /\ UNCHANGED <<config, remote, temp_excel, locals, calls, world>>

\* with open('temp_upload.xlsx', 'rb') as f: requests.put(..., data=f.read())
Upload(t) ==
    /\ pc[t] = "upload"
    /\ IF temp_upload = <<>>
       THEN /\ Finish(t, WriteRaised)
            /\ UNCHANGED <<onedrive, last_writer, response, calls, faults>>
       ELSE /\ calls' = [calls EXCEPT ![t] = Append(@, "graph.put")]
            /\ \E outcome \in Possible(TRUE, Outcomes) :
                 /\ Fault(TRUE, outcome)
                 /\ CASE outcome = "ok" ->
                           /\ onedrive' = temp_upload[1]
                           /\ last_writer' = t
                           /\ response' = [response EXCEPT ![t] =
                                             [status_code |-> 200, content |-> <<>>]]
                           /\ Continue(t, "remove_upload")
                      [] outcome = "error" ->
                           /\ UNCHANGED <<onedrive, last_writer>>
                           /\ response' = [response EXCEPT ![t] =
                                             [status_code |-> 503, content |-> <<>>]]
                           /\ Continue(t, "remove_upload")
                      [] OTHER ->
                           /\ UNCHANGED <<onedrive, last_writer, response>>
                           /\ Finish(t, WriteRaised)
    /\ UNCHANGED <<config, sheet, files, google_data, excel_data, edits>>

\* os.remove('temp_upload.xlsx'), the status check, and sync_data's return.
RemoveUpload(t) ==
    /\ pc[t] = "remove_upload"
    /\ response' = [response EXCEPT ![t] = NoResponse]
    /\ IF temp_upload = <<>>
       THEN /\ UNCHANGED temp_upload
            /\ Finish(t, WriteRaised)
       ELSE /\ temp_upload' = <<>>
            /\ IF response[t].status_code \in {200, 201}
               THEN Finish(t, Applied)
               ELSE Finish(t, WriteFailure("Error uploading Excel file"))
    /\ UNCHANGED <<config, remote, temp_excel, google_data, excel_data, calls, world>>

\* A user of the spreadsheet changes it.
EditSheet ==
    /\ edits < MaxEdits
    /\ \E v \in SheetValues \ {sheet} : sheet' = v
    /\ edits' = edits + 1
    /\ UNCHANGED <<config, onedrive, files, pc, locals, result, http, calls,
                   faults, last_writer>>

ThreadStep(t) ==
    \/ Accept(t)
    \/ ReadGoogle(t)
    \/ TokenRead(t)
    \/ Download(t)
    \/ SaveTemp(t)
    \/ ParseTemp(t)
    \/ RemoveTemp(t)
    \/ StartWrite(t)
    \/ SaveUpload(t)
    \/ Upload(t)
    \/ RemoveUpload(t)

Next ==
    \/ \E t \in Requests : ThreadStep(t)
    \/ EditSheet

Spec == Init /\ [][Next]_vars

\* Requests served one after the other, the spreadsheet left alone.
InFlight(t) == pc[t] \notin {"pending", "done"}

NextSeq ==
    \E t \in Requests :
        /\ \A u \in Requests \ {t} : ~InFlight(u)
        /\ ThreadStep(t)

SpecSeq == Init /\ [][NextSeq]_vars
(***************************************************************************)
(* Properties.                                                             *)
(***************************************************************************)
Done(t) == pc[t] = "done"

IsFrame(d) == d.type = "DataFrame"

Count(seq, S) == Cardinality({i \in DOMAIN seq : seq[i] \in S})

RemoteWrites == {"graph.put", "sheets.clear", "sheets.update"}

\* Two snapshots with the same columns and the same printed cells.
SameCells(a, b) ==
    /\ IsFrame(a) /\ IsFrame(b)
    /\ a.columns = b.columns
    /\ Len(a.rows) = Len(b.rows)
    /\ \A i \in 1..Len(a.rows) : \A j \in 1..Len(a.columns) :
         a.rows[i][j][2] = b.rows[i][j][2]

\* C1: an invocation makes at most one remote write call, and when the two
\* snapshots it read are identical it makes none, never enters the write
\* branch and returns the 'skipped' result.
C1_AtMostOneWrite ==
    \A t \in Requests :
        /\ Count(calls[t], RemoteWrites) <= 1
        /\ SameCells(google_data[t], excel_data[t]) =>
              /\ Count(calls[t], RemoteWrites) = 0
              /\ pc[t] \in {"remove_temp", "done"}
              /\ Done(t) => result[t] = Skipped

C1_Witness ==
    \E t, u \in Requests :
        /\ Done(t) /\ SameCells(google_data[t], excel_data[t]) /\ result[t] = Skipped
        /\ Done(u) /\ Count(calls[u], RemoteWrites) = 1

\* C2: when the read of source A fails, the invocation is over at once with
\* the failure "Google Sheets error", has called nothing but the Sheets read,
\* and has written to neither source.
C2_SourceAReadFails ==
    \A t \in Requests :
        (pc[t] \notin {"pending", "read_google"} /\ ~IsFrame(google_data[t])) =>
            /\ Done(t)
            /\ result[t].kind = "return" /\ ~result[t].success
            /\ result[t].message = "Google Sheets error"
            /\ calls[t] \in {<<>>, <<"sheets.get">>}
            /\ last_writer # t

C2_Witness ==
    \E t \in Requests :
        /\ Done(t) /\ calls[t] = <<"sheets.get">>
        /\ result[t] = Return(FALSE, "Google Sheets error", "Error reading Google Sheets")
        /\ http[t].status = 200

\* C3: sync_data never raises: a finished invocation has returned a
\* (success, message) pair, whatever the collaborators did, and an
\* invocation that has not finished can always take its next step.
C3_NeverRaises ==
    \A t \in Requests :
        /\ Done(t) => result[t].kind = "return" /\ result[t].message # ""
        /\ ~Done(t) => result[t] = NoResult
        /\ InFlight(t) => ENABLED ThreadStep(t)

C3_Witness ==
    \E t \in Requests :
        /\ Done(t) /\ faults = 1 /\ temp_excel = <<>>
        /\ calls[t] = <<"sheets.get", "msal.token", "graph.get">>
        /\ result[t] = ExcelFailure("Error reading OneDrive Excel")

\* C4: of two invocations in a row with no change to either source, both
\* of which succeed, the second returns the 'skipped' result.
C4_SecondCallSkips ==
    \A t \in Requests :
        (t > 1 /\ Done(t) /\ Done(t - 1) /\ result[t - 1].success /\ result[t].success)
            => result[t] = Skipped

\* C5: an invocation whose write to the workbook succeeded returns the
\* 'applied' result, and the workbook then reads back as the snapshot of
\* the spreadsheet the invocation read.
C5_WriteThenRead ==
    \A t \in Requests :
        (Done(t) /\ last_writer = t) =>
            /\ result[t] = Applied
            /\ SameCells(ReadExcel(onedrive), google_data[t])

\* C6: the temp files of an invocation are its own: between writing a file
\* and removing it the file is there and holds what this invocation wrote.
C6_PrivateBuffers ==
    \A t \in Requests :
        /\ pc[t] \in {"parse_temp", "remove_temp"} => temp_excel = response[t].content
        /\ pc[t] = "upload" => temp_upload = <<ToExcel(google_data[t])>>
        /\ pc[t] = "remove_upload" => temp_upload # <<>>

\* C7: nothing makes an invocation wait for another: the next request is
\* accepted, and an upload goes ahead, whatever the other requests are
\* doing.  (The stale clobber itself is the state C7_StaleClobber.)
C7_NoSingleFlight ==
    \A t \in Requests :
        /\ (pc[t] = "pending" /\ \A u \in Requests : u < t => pc[u] # "pending")
              => ENABLED Accept(t)
        /\ pc[t] = "upload" => ENABLED Upload(t)

\* Both invocations report success, a read the spreadsheet before its edit
\* and b after it, a's write landed last, and the workbook holds the older
\* snapshot, which is not what the spreadsheet holds now.
C7_StaleClobber ==
    \E a, b \in Requests :
        /\ a # b /\ Done(a) /\ Done(b)
        /\ result[a] = Applied /\ result[b] = Applied
        /\ edits = 1 /\ last_writer = a
        /\ sheet # <<>> /\ ~FrameRaises(sheet)
        /\ google_data[b] = FromValues(sheet)
        /\ google_data[a] # google_data[b]
        /\ onedrive = ToExcel(google_data[a])
        /\ SameCells(ReadExcel(onedrive), google_data[a])
        /\ ~SameCells(ReadExcel(onedrive), FromValues(sheet))

StepOrder == <<"sheets.get", "msal.token", "graph.get", "msal.token", "graph.put">>

IsPrefix(s, full) ==
    /\ Len(s) <= Len(full)
    /\ \A i \in 1..Len(s) : s[i] = full[i]

C10_StepOrder ==
    \A t \in Requests :
        /\ IsPrefix(calls[t], StepOrder)
        /\ (Done(t) /\ ~result[t].success) =>
              CASE result[t].message = "Google Sheets error" ->
                     /\ Len(calls[t]) <= 1
                     /\ ~IsFrame(google_data[t])
                [] result[t].message = "OneDrive Excel error" ->
                     /\ Len(calls[t]) <= 3
                     /\ IsFrame(google_data[t])
                     /\ ~IsFrame(excel_data[t])
                [] result[t].message = "Failed to sync to Excel" ->
                     /\ Len(calls[t]) \in {4, 5}
                     /\ IsFrame(google_data[t]) /\ IsFrame(excel_data[t])
                     /\ ~SameCells(google_data[t], excel_data[t])
                [] OTHER -> FALSE

C10_Witness ==
    \E t \in Requests :
        /\ Done(t) /\ calls[t] = StepOrder
        /\ result[t] = WriteFailure("Error uploading Excel file")

\* C11: an empty range read from the spreadsheet is a failed read: the
\* invocation that got the empty list has ended with "Google Sheets error:
\* No data found in Google Sheets" after the single call sheets.get, it has
\* not read the workbook and has written nothing; an invocation that is
\* writing holds a DataFrame, and whenever the workbook has been written it
\* holds the file of a DataFrame some invocation built from a range with at
\* least its header row, never of the empty list.
C11_EmptySourceIsFailure ==
    /\ \A t \in Requests :
         /\ google_data[t] = EmptyList =>
               /\ Done(t)
               /\ result[t] = Return(FALSE, "Google Sheets error",
                                     "No data found in Google Sheets")
               /\ calls[t] = <<"sheets.get">>
               /\ ~IsFrame(excel_data[t])
               /\ last_writer # t
         /\ pc[t] \in {"write", "save_upload", "upload", "remove_upload"} =>
               IsFrame(google_data[t])
    /\ last_writer \in Requests =>
         \E u \in Requests :
            /\ IsFrame(google_data[u])
            /\ onedrive = ToExcel(google_data[u])

\* The range was emptied after an invocation had copied it: the next
\* invocation fails on the empty range and the workbook keeps its rows.
C11_Witness ==
    \E t, u \in Requests :
       /\ sheet = <<>>
       /\ Done(t)
       /\ google_data[t] = EmptyList
       /\ result[t] = Return(FALSE, "Google Sheets error",
                             "No data found in Google Sheets")
       /\ calls[t] = <<"sheets.get">>
       /\ Done(u)
       /\ result[u] = Applied
       /\ last_writer = u
       /\ onedrive = ToExcel(google_data[u])
       /\ Len(onedrive.rows) > 0

====
